---- MODULE Spec2Model ----
(***************************************************************************)
(* Model of micro_sf_client's SFClient (src/lib.rs): the cached token, the *)
(* attempt limit and the authenticate / build_request / do_query /         *)
(* attempt_query / query pipeline, with the remote backend as the source   *)
(* of nondeterministic replies.                                            *)
(***************************************************************************)
EXTENDS Integers, Sequences, FiniteSets, TLC

(* ---------------------------- bounds ----------------------------------- *)

\* largest value passed to set_attempt_limit
MaxLimit == 2

\* longest records sequence of a QueryResponse that is serialized
MaxRecords == 2

(* ------------------------ program constants ---------------------------- *)

\* attempt_limit of a freshly constructed client
DefaultAttemptLimit == 3

\* attempt and attempt_limit are u8
U8Mod == 256

StatusOk == 200

StatusUnauthorized == 401

(* --------------------------- value sets -------------------------------- *)

\* Token::new: a credential, by the two fields the client reads
\* (token_type, signature and issued_at are stored and never used)
Token_new(access_token, instance_url) ==
    [access_token |-> access_token, instance_url |-> instance_url]

\* Option<Token>::None
NoToken == Token_new("None", "None")

TokenA == Token_new("accessA", "https://na1/")
TokenB == Token_new("accessB", "https://na2/")

\* credentials the backend can issue / a caller can pass to set_token
Tokens == {TokenA, TokenB}

\* the `error` strings of a TokenError body
AuthCodes == {"invalid_client_id", "invalid_client_credentials", "invalid_grant",
              "inactive_user", "inactive_org", "rate_limit_exceeded", "unknown_code"}

\* HTTP statuses of a query response
Statuses == {200, 401, 404, 500}

\* QueryResponse values a 200 body can decode to
QueryResponses == {"qr1"}

Absent == "absent"

\* a body without (all of) the fields of a Token
NoTokenFields == Token_new(Absent, Absent)

\* body of an authentication response: the Token fields (all five present
\* or not) and the TokenError fields (present or not)
AuthBodies == [token : Tokens \cup {NoTokenFields}, error : AuthCodes \cup {Absent}]

NoAuthBody == [token |-> NoTokenFields, error |-> Absent]

\* HTTP statuses of an authentication response
AuthStatuses == {200, 400}

\* no response was received: reqwest's send() returned Err
TransportError ==
    [transport |-> "error", status |-> 0, body |-> NoAuthBody, resp |-> Absent,
     failure |-> Absent]

\* reply to the authentication POST: transport error, or a status and a body
AuthReplies ==
    {TransportError} \cup
    [transport : {"ok"}, status : AuthStatuses, body : AuthBodies, resp : {Absent},
     failure : {Absent}]

\* what the body of a query response holds when it is a failure record
FailureRecords == {"failure_record"}

\* reply to the query GET: transport error, or a status and a body; the
\* body decodes to a QueryResponse or does not (resp), and is a failure
\* record (message and fields) or is not (failure)
QueryReplies ==
    {TransportError} \cup
    [transport : {"ok"}, status : Statuses, body : {NoAuthBody},
     resp : QueryResponses \cup {Absent}, failure : FailureRecords \cup {Absent}]

\* nothing received yet
NoReply ==
    [transport |-> "none", status |-> 0, body |-> NoAuthBody, resp |-> Absent,
     failure |-> Absent]

\* SFClientResult values
None == [tag |-> "None", val |-> "none"]
Ok(v) == [tag |-> "Ok", val |-> v]
Err(e) == [tag |-> "Err", val |-> e]

VARIABLES
    token,          \* SFClient.token : NoToken or a member of Tokens
    attempt_limit,  \* SFClient.attempt_limit
    pc,             \* position of the caller / of query()
    attempt,        \* the `attempt` argument of the running attempt_query
    result,         \* what query() returned (None while running / before)
    net,            \* outbound requests without a reply yet
    log,            \* exchanges of the current query() call, in order
    lastErr,        \* failure of the most recent do_query of this call
    lastReply,      \* the reply received last in this call, and to what
    execs,          \* do_query invocations of the current query() call
    prevExecs,      \* do_query invocations of the previous query() call
    login_url,      \* the login_url argument of new, then SFClient.login_url
    leaf            \* the last run of a stand-alone request or conversion

vars == <<token, attempt_limit, pc, attempt, result, net, log, lastErr, lastReply,
          execs, prevExecs, login_url, leaf>>

\* the state of one SFClient and of the call running on it
clientVars == <<token, attempt_limit, pc, attempt, result, net, log, lastErr, lastReply,
                execs, prevExecs, login_url>>


(* ------------------------- pure functions ------------------------------ *)

\* a match whose invalid_grant arm yields the neighbouring kind
TokenErrorKind_swapped(code) ==
    CASE code = "invalid_client_id" -> "InvalidClientId"
      [] code = "invalid_client_credentials" -> "InvalidClientSecret"
      [] code = "invalid_grant" -> "InvalidUser"
      [] code = "inactive_user" -> "InvalidUser"
      [] code = "inactive_org" -> "OrgUnavailable"
      [] code = "rate_limit_exceeded" -> "RateLimitExceeded"
      [] OTHER -> "TokenUnavailable"

\* the match on token_error.error in SFClient::authenticate
TokenErrorKind(code) ==
    CASE code = "invalid_client_id" -> "InvalidClientId"
      [] code = "invalid_client_credentials" -> "InvalidClientSecret"
      [] code = "invalid_grant" -> "InvalidGrant"
      [] code = "inactive_user" -> "InvalidUser"
      [] code = "inactive_org" -> "OrgUnavailable"
      [] code = "rate_limit_exceeded" -> "RateLimitExceeded"
      [] OTHER -> "TokenUnavailable"

\* an authenticate that tries the TokenError decode before the Token decode
authenticate_error_first(tok, reply) ==
    IF reply.transport = "error"
    THEN [tok |-> tok, res |-> Err("Network")]
    ELSE IF reply.body.error # Absent
    THEN [tok |-> tok, res |-> Err(TokenErrorKind(reply.body.error))]
    ELSE IF reply.body.token # NoTokenFields
    THEN [tok |-> reply.body.token, res |-> Ok("unit")]
    ELSE [tok |-> tok, res |-> Err("TokenUnavailable")]

\* an authenticate that updates the cached token field by field and
\* leaves instance_url as it was
authenticate_partial(tok, reply) ==
    IF reply.transport = "error"
    THEN [tok |-> tok, res |-> Err("Network")]
    ELSE IF reply.body.token # NoTokenFields
    THEN [tok |-> [tok EXCEPT !.access_token = reply.body.token.access_token],
          res |-> Ok("unit")]
    ELSE IF reply.body.error # Absent
    THEN [tok |-> tok, res |-> Err(TokenErrorKind(reply.body.error))]
    ELSE [tok |-> tok, res |-> Err("TokenUnavailable")]

\* an authenticate that reports a transport error as TokenUnavailable
authenticate_netfold(tok, reply) ==
    IF reply.transport = "error"
    THEN [tok |-> tok, res |-> Err("TokenUnavailable")]
    ELSE IF reply.body.token # NoTokenFields
    THEN [tok |-> reply.body.token, res |-> Ok("unit")]
    ELSE IF reply.body.error # Absent
    THEN [tok |-> tok, res |-> Err(TokenErrorKind(reply.body.error))]
    ELSE [tok |-> tok, res |-> Err("TokenUnavailable")]

\* an authenticate that reports Ok without storing the decoded token
authenticate_nostore(tok, reply) ==
    IF reply.transport = "error"
    THEN [tok |-> tok, res |-> Err("Network")]
    ELSE IF reply.body.token # NoTokenFields
    THEN [tok |-> tok, res |-> Ok("unit")]
    ELSE IF reply.body.error # Absent
    THEN [tok |-> tok, res |-> Err(TokenErrorKind(reply.body.error))]
    ELSE [tok |-> tok, res |-> Err("TokenUnavailable")]

\* SFClient::authenticate once the reply is known: the new value of the
\* token slot and the returned SFClientResult<()>.  The Token decode is
\* tried first, the TokenError decode second; the status is not looked at.
authenticate(tok, reply) ==
    IF reply.transport = "error"
    THEN [tok |-> tok, res |-> Err("Network")]
    ELSE IF reply.body.token # NoTokenFields
    THEN [tok |-> reply.body.token, res |-> Ok("unit")]
    ELSE IF reply.body.error # Absent
    THEN [tok |-> tok, res |-> Err(TokenErrorKind(reply.body.error))]
    ELSE [tok |-> tok, res |-> Err("TokenUnavailable")]

\* a build_request that authenticates on every call
needs_authenticate_always(tok) == TRUE

\* build_request: `if self.token.is_none() { self.authenticate()?; }`
needs_authenticate(tok) == tok = NoToken

\* a status match that turns an undecodable 200 body into an empty success
do_query_result_lenient(reply) ==
    IF reply.transport = "error"
    THEN Err("Network")
    ELSE IF reply.status = StatusOk
    THEN IF reply.resp # Absent
         THEN Ok(reply.resp)
         ELSE Ok("empty")
    ELSE Err("QueryFailure")

\* the closure of do_query applied to a reply: the returned result
do_query_result(reply) ==
    IF reply.transport = "error"
    THEN Err("Network")
    ELSE IF reply.status = StatusOk
    THEN IF reply.resp # Absent
         THEN Ok(reply.resp)
         ELSE Err("QueryResponseParseFailure")
    ELSE Err("QueryFailure")

\* a status match that clears the token on every non-200 status
do_query_token_any(tok, reply) ==
    IF reply.transport = "ok" /\ reply.status # StatusOk
    THEN NoToken
    ELSE tok

\* a status match that clears the token only when a retry will follow
do_query_token_retryonly(tok, reply) ==
    IF reply.transport = "ok" /\ reply.status = StatusUnauthorized /\ attempt < attempt_limit
    THEN NoToken
    ELSE tok

\* a status match that never clears the token
do_query_token_keep(tok, reply) == tok

\* the closure of do_query applied to a reply: the token slot afterwards
do_query_token(tok, reply) ==
    IF reply.transport = "ok" /\ reply.status = StatusUnauthorized
    THEN NoToken
    ELSE tok

\* how the backend's answer to a query is entered in the log
ReplyClass(reply) ==
    IF reply.transport = "error" THEN "fail"
    ELSE IF reply.status = StatusUnauthorized THEN "401"
    ELSE IF reply.status = StatusOk /\ reply.resp # Absent THEN "ok"
    ELSE "fail"

\* how the backend's answer to an authentication is entered in the log
AuthReplyClass(reply) ==
    IF reply.transport = "ok" /\ reply.body.token # NoTokenFields THEN "ok" ELSE "fail"

Received(kind, reply) == [kind |-> kind, reply |-> reply]

\* the POST of build_auth_request, to login_url
AuthReq == [kind |-> "auth", url |-> login_url, bearer |-> "-"]

\* the GET of build_request: the url starts with the credential's
\* instance_url, the Authorization header is Bearer access_token
QueryReq(t) == [kind |-> "query", url |-> t.instance_url, bearer |-> t.access_token]

\* a request as the backend sees it; tok is the credential it shows
Sent(req) == [req |-> req.kind, tok |-> Token_new(req.bearer, req.url), res |-> "pending"]
SetLast(s, r) == [s EXCEPT ![Len(s)].res = r]

(* ------------------------------ Init ----------------------------------- *)

\* no stand-alone request or conversion has run
NoLeaf == [op |-> "none"]

\* the client returned by SFClient::new
Init ==
    /\ token = NoToken
    /\ attempt_limit = DefaultAttemptLimit
    /\ pc = "idle"
    /\ attempt = 0
    /\ result = None
    /\ net = {}
    /\ log = <<>>
    /\ lastErr = "none"
    /\ lastReply = Received("none", NoReply)
    /\ execs = 0
    /\ prevExecs = 0
    /\ login_url = "https://login"
    /\ leaf = NoLeaf

(* ----------------------------- actions --------------------------------- *)

Callable == pc \in {"idle", "done"}

set_attempt_limit(n) ==
    /\ UNCHANGED <<login_url, leaf>>
    /\ Callable
    /\ attempt_limit' = n
    /\ pc' = "idle"
    /\ UNCHANGED <<token, attempt, result, net, log, lastErr, lastReply, execs, prevExecs>>

set_token(t) ==
    /\ UNCHANGED <<login_url, leaf>>
    /\ Callable
    /\ token' = t
    /\ pc' = "idle"
    /\ UNCHANGED <<attempt_limit, attempt, result, net, log, lastErr, lastReply, execs, prevExecs>>

\* a query that carries the attempt index over from the previous call
query_keep_attempt ==
    /\ UNCHANGED <<login_url, leaf>>
    /\ Callable
    /\ attempt' = attempt
    /\ pc' = "do_query"
    /\ result' = None
    /\ log' = <<>>
    /\ lastErr' = "none"
    /\ lastReply' = Received("none", NoReply)
    /\ execs' = 0
    /\ prevExecs' = execs
    /\ UNCHANGED <<token, attempt_limit, net>>

\* query: self.attempt_query(query, 0)
query ==
    /\ UNCHANGED <<login_url, leaf>>
    /\ Callable
    /\ attempt' = 0
    /\ pc' = "do_query"
    /\ result' = None
    /\ log' = <<>>
    /\ lastErr' = "none"
    /\ lastReply' = Received("none", NoReply)
    /\ execs' = 0
    /\ prevExecs' = execs
    /\ UNCHANGED <<token, attempt_limit, net>>

\* a retry test that stops one attempt early
attempt_query_or_else_early(err) ==
    IF attempt + 1 < attempt_limit
    THEN /\ attempt' = (attempt + 1) % U8Mod
         /\ pc' = "do_query"
         /\ result' = result
    ELSE /\ attempt' = attempt
         /\ pc' = "done"
         /\ result' = Err(err)

\* a retry test that allows one attempt too many
attempt_query_or_else_late(err) ==
    IF attempt <= attempt_limit
    THEN /\ attempt' = (attempt + 1) % U8Mod
         /\ pc' = "do_query"
         /\ result' = result
    ELSE /\ attempt' = attempt
         /\ pc' = "done"
         /\ result' = Err(err)

\* an attempt_query that reports exhaustion as QueryFailure
attempt_query_or_else_generic(err) ==
    IF attempt < attempt_limit
    THEN /\ attempt' = (attempt + 1) % U8Mod
         /\ pc' = "do_query"
         /\ result' = result
    ELSE /\ attempt' = attempt
         /\ pc' = "done"
         /\ result' = Err("QueryFailure")

\* an attempt_query that retries only after the token was cleared
attempt_query_or_else_only401(err) ==
    IF attempt < attempt_limit /\ token' = NoToken
    THEN /\ attempt' = (attempt + 1) % U8Mod
         /\ pc' = "do_query"
         /\ result' = result
    ELSE /\ attempt' = attempt
         /\ pc' = "done"
         /\ result' = Err(err)

\* an attempt_query that does not return once the budget is used up
attempt_query_or_else_hang(err) ==
    IF attempt < attempt_limit
    THEN /\ attempt' = (attempt + 1) % U8Mod
         /\ pc' = "do_query"
         /\ result' = result
    ELSE /\ attempt' = attempt
         /\ pc' = pc
         /\ result' = result

\* an attempt_query that never retries
attempt_query_or_else_noretry(err) ==
    /\ attempt' = attempt
    /\ pc' = "done"
    /\ result' = Err(err)

\* the or_else closure of attempt_query, given the failure of do_query
attempt_query_or_else(err) ==
    IF attempt < attempt_limit
    THEN /\ attempt' = (attempt + 1) % U8Mod
         /\ pc' = "do_query"
         /\ result' = result
    ELSE /\ attempt' = attempt
         /\ pc' = "done"
         /\ result' = Err(err)

\* a do_query whose authenticate sends its POST twice
do_query_double_auth ==
    /\ UNCHANGED <<login_url, leaf>>
    /\ pc = "do_query"
    /\ execs' = execs + 1
    /\ IF needs_authenticate(token)
       THEN /\ net' = net \cup {AuthReq}
            /\ log' = Append(Append(log, [Sent(AuthReq) EXCEPT !.res = "fail"]), Sent(AuthReq))
            /\ pc' = "auth_wait"
       ELSE /\ net' = net \cup {QueryReq(token)}
            /\ log' = Append(log, Sent(QueryReq(token)))
            /\ pc' = "query_wait"
    /\ UNCHANGED <<token, attempt_limit, attempt, result, lastErr, lastReply, prevExecs>>

\* a do_query that sends the query GET along with the authentication POST
do_query_nowait ==
    /\ UNCHANGED <<login_url, leaf>>
    /\ pc = "do_query"
    /\ execs' = execs + 1
    /\ IF needs_authenticate(token)
       THEN /\ net' = net \cup {AuthReq, QueryReq(token)}
            /\ log' = Append(log, Sent(AuthReq))
            /\ pc' = "auth_wait"
       ELSE /\ net' = net \cup {QueryReq(token)}
            /\ log' = Append(log, Sent(QueryReq(token)))
            /\ pc' = "query_wait"
    /\ UNCHANGED <<token, attempt_limit, attempt, result, lastErr, lastReply, prevExecs>>

\* do_query up to its first outbound request: build_request sends the
\* authentication POST when no token is cached, else the query GET goes out
do_query ==
    /\ UNCHANGED <<login_url, leaf>>
    /\ pc = "do_query"
    /\ execs' = execs + 1
    /\ IF needs_authenticate(token)
       THEN /\ net' = net \cup {AuthReq}
            /\ log' = Append(log, Sent(AuthReq))
            /\ pc' = "auth_wait"
       ELSE /\ net' = net \cup {QueryReq(token)}
            /\ log' = Append(log, Sent(QueryReq(token)))
            /\ pc' = "query_wait"
    /\ UNCHANGED <<token, attempt_limit, attempt, result, lastErr, lastReply, prevExecs>>

\* the authentication reply arrives: rest of authenticate, rest of
\* build_request, and either the query GET or the or_else of attempt_query
auth_reply(reply) ==
    /\ UNCHANGED <<login_url, leaf>>
    /\ pc = "auth_wait"
    /\ AuthReq \in net
    /\ LET a == authenticate(token, reply) IN
       /\ token' = a.tok
       /\ lastReply' = Received("auth", reply)
       /\ IF a.res.tag = "Ok"
          THEN IF a.tok # NoToken
               THEN /\ net' = (net \ {AuthReq}) \cup {QueryReq(a.tok)}
                    /\ log' = Append(SetLast(log, AuthReplyClass(reply)), Sent(QueryReq(a.tok)))
                    /\ pc' = "query_wait"
                    /\ UNCHANGED <<attempt, result, lastErr>>
               ELSE /\ net' = net \ {AuthReq}
                    /\ log' = SetLast(log, AuthReplyClass(reply))
                    /\ lastErr' = "TokenUnavailable"
                    /\ attempt_query_or_else("TokenUnavailable")
          ELSE /\ net' = net \ {AuthReq}
               /\ log' = SetLast(log, AuthReplyClass(reply))
               /\ lastErr' = a.res.val
               /\ attempt_query_or_else(a.res.val)
    /\ UNCHANGED <<attempt_limit, execs, prevExecs>>

\* the query reply arrives: the status match of do_query, then attempt_query
query_reply(reply) ==
    /\ UNCHANGED <<login_url, leaf>>
    /\ pc = "query_wait"
    /\ net # {}
    /\ LET r == do_query_result(reply) IN
       /\ token' = do_query_token(token, reply)
       /\ net' = {}
       /\ lastReply' = Received("query", reply)
       /\ log' = SetLast(log, ReplyClass(reply))
       /\ IF r.tag = "Ok"
          THEN /\ pc' = "done"
               /\ result' = r
               /\ UNCHANGED <<attempt, lastErr>>
          ELSE /\ lastErr' = r.val
               /\ attempt_query_or_else(r.val)
    /\ UNCHANGED <<attempt_limit, execs, prevExecs>>

Next ==
    \/ \E n \in 0..MaxLimit : set_attempt_limit(n)
    \/ \E t \in Tokens : set_token(t)
    \/ query
    \/ do_query
    \/ \E reply \in AuthReplies : auth_reply(reply)
    \/ \E reply \in QueryReplies : query_reply(reply)

Spec == Init /\ [][Next]_vars

TypeOK ==
    /\ token \in Tokens \cup {NoToken}
    /\ attempt_limit \in 0..(U8Mod - 1)
    /\ attempt \in 0..(U8Mod - 1)
    /\ pc \in {"idle", "do_query", "auth_wait", "query_wait", "done"}
    /\ result.tag \in {"None", "Ok", "Err"}
    /\ Cardinality(net) <= 1

(* ------------------- observations used by the claims ------------------- *)

\* positions of the log holding a request of the given kind
Positions(kind) == {i \in 1..Len(log) : log[i].req = kind}

\* authentication requests / query requests sent by the current call
NumAuth == Cardinality(Positions("auth"))
NumQuery == Cardinality(Positions("query"))

\* the call began with no cached credential: its first request is the POST
StartedWithoutToken == Len(log) >= 1 /\ log[1].req = "auth"

\* every authentication request of the call that was answered has failed
EveryAuthFailed == \A i \in Positions("auth") : log[i].res = "fail"

\* the position of the last 401 of the call (0 if there is none)
Last401 ==
    IF \E i \in 1..Len(log) : log[i].res = "401"
    THEN CHOOSE i \in 1..Len(log) :
             /\ log[i].res = "401"
             /\ \A j \in (i + 1)..Len(log) : log[j].res # "401"
    ELSE 0

(* ------------------------------- C1 ------------------------------------ *)

\* C1: with attempt_limit = N and no cached credential, if every
\* authentication request fails, a finished call to query has sent exactly
\* N + 1 authentication requests (and no query request) and returned Err.
C1_RetriesToLimit ==
    (pc = "done" /\ StartedWithoutToken /\ EveryAuthFailed)
        => /\ NumAuth = attempt_limit + 1
           /\ NumQuery = 0
           /\ result.tag = "Err"

C1_Witness ==
    /\ pc = "done"
    /\ StartedWithoutToken
    /\ EveryAuthFailed
    /\ attempt_limit = 2
    /\ NumAuth = 3
    /\ result.tag = "Err"

(* ------------------------------- C2 ------------------------------------ *)

\* authentication requests sent after position i of the log
AuthAfter(i) == Cardinality({j \in Positions("auth") : j > i})

\* C2 as stated: a 401 clears the cached credential and, when
\* attempt_limit >= 1, a finished call has sent exactly one authentication
\* request after the (last) 401.
C2_Original ==
    (pc = "done" /\ Last401 > 0)
        => /\ (Last401 = Len(log) => token = NoToken)
           /\ (attempt_limit >= 1 => AuthAfter(Last401) = 1)

\* C2 (amended): a 401 clears the cached credential; if the attempt index
\* is below attempt_limit the next execution attempt starts with exactly one
\* authentication request, sent before any further query request; if the
\* attempt index equals attempt_limit no further request is sent and the
\* call returns QueryFailure.
C2_Amended ==
    \A i \in 1..Len(log) :
        log[i].res = "401" =>
            /\ log[i].req = "query"
            /\ (i < Len(log) => log[i + 1].req = "auth")
            /\ (i + 2 <= Len(log) =>
                    \/ log[i + 1].res = "ok" /\ log[i + 2].req = "query"
                    \/ log[i + 1].res = "fail" /\ log[i + 2].req = "auth")
            /\ (i = Len(log) /\ pc \in {"do_query", "done"} => token = NoToken)
            /\ (i = Len(log) /\ pc = "do_query" => attempt <= attempt_limit /\ attempt >= 1)
            /\ (i = Len(log) /\ pc = "done" =>
                    /\ attempt = attempt_limit
                    /\ result = Err("QueryFailure"))

C2_Witness ==
    /\ pc = "done"
    /\ attempt_limit >= 1
    /\ Last401 > 0
    /\ Last401 < Len(log)
    /\ log[Last401 + 1].req = "auth"
    /\ AuthAfter(Last401) = 1

(* ------------------------------- C3 ------------------------------------ *)

\* C3: if no credential is cached when query is called and the first
\* authentication succeeds, the query request follows it at once; if that
\* query succeeds too, the call is over with exactly one authentication
\* request followed by exactly one query request, and returns the success.
C3_OneAuthOneQuery ==
    (StartedWithoutToken /\ log[1].res = "ok")
        => /\ Len(log) >= 2
           /\ log[2].req = "query"
           /\ (log[2].res = "ok" =>
                  /\ pc \in {"done", "idle"}
                  /\ Len(log) = 2
                  /\ NumAuth = 1
                  /\ NumQuery = 1
                  /\ (pc = "done" => result.tag = "Ok" /\ token = log[2].tok))

C3_Witness ==
    /\ pc = "done"
    /\ StartedWithoutToken
    /\ log[1].res = "ok"
    /\ Len(log) = 2
    /\ log[2].res = "ok"
    /\ result = Ok("qr1")

(* ------------------------------- C4 ------------------------------------ *)

\* C4: one call to query performs at most attempt_limit + 1 invocations of
\* do_query, and the attempt index never exceeds attempt_limit.
C4_BoundedAttempts ==
    pc # "idle" =>
        /\ execs <= attempt_limit + 1
        /\ attempt <= attempt_limit
        /\ (pc \in {"auth_wait", "query_wait", "done"} => execs = attempt + 1)

C4_Witness ==
    /\ pc = "done"
    /\ attempt_limit >= 1
    /\ execs = attempt_limit + 1
    /\ attempt = attempt_limit

(* ------------------------------- C5 ------------------------------------ *)

\* C5 as stated: when query is called with no cached credential and the
\* authentication fails, that failure is returned at once, with no retry.
C5_Original ==
    (pc # "idle" /\ StartedWithoutToken /\ log[1].res = "fail")
        => /\ pc = "done"
           /\ NumAuth = 1
           /\ result.tag = "Err"

\* C5 (amended): when query is called with no cached credential and the
\* authentication fails, the failure is returned at once with no retry
\* exactly when attempt_limit = 0; when attempt_limit >= 1 the call goes
\* on to a next execution attempt, which sends the authentication again.
C5_Amended ==
    (pc # "idle" /\ StartedWithoutToken /\ log[1].res = "fail")
        => /\ (attempt_limit = 0 =>
                  /\ pc = "done"
                  /\ Len(log) = 1
                  /\ lastReply.kind = "auth"
                  /\ result = Err(lastErr))
           /\ (attempt_limit >= 1 =>
                  /\ (Len(log) = 1 => pc = "do_query" /\ attempt = 1)
                  /\ (Len(log) >= 2 => log[2].req = "auth"))

C5_Witness ==
    /\ pc = "done"
    /\ StartedWithoutToken
    /\ log[1].res = "fail"
    /\ attempt_limit >= 1
    /\ Len(log) >= 2
    /\ log[2].req = "auth"

(* ------------------------------- C6 ------------------------------------ *)

\* the last reply was an authentication body carrying only this error code
LastAuthError(code) ==
    /\ lastReply.kind = "auth"
    /\ lastReply.reply.transport = "ok"
    /\ lastReply.reply.body.token = NoTokenFields
    /\ lastReply.reply.body.error = code

\* authentication requests of the call that were answered with a failure
NumFailedAuth == Cardinality({i \in Positions("auth") : log[i].res = "fail"})

\* C6: an execution attempt whose authentication fails sends no query
\* request (the request after a failed authentication is the next
\* attempt's authentication); with attempt_limit = 0 and an authentication
\* answer error=invalid_grant, query returns InvalidGrant and no query
\* request was made.
C6_NoQueryAfterFailedAuth ==
    /\ \A i \in Positions("auth") :
           (log[i].res = "fail" /\ i < Len(log)) => log[i + 1].req = "auth"
    /\ NumQuery + NumFailedAuth <= execs
    /\ (pc = "done" /\ attempt_limit = 0 /\ LastAuthError("invalid_grant"))
           => /\ result = Err("InvalidGrant")
              /\ NumQuery = 0
              /\ NumAuth = 1

C6_Witness ==
    /\ pc = "done"
    /\ attempt_limit = 0
    /\ LastAuthError("invalid_grant")
    /\ result = Err("InvalidGrant")
    /\ NumQuery = 0

(* ------------------------------- C7 ------------------------------------ *)

\* the last reply was a query response with this status
LastQueryStatus(status) ==
    /\ lastReply.kind = "query"
    /\ lastReply.reply.transport = "ok"
    /\ lastReply.reply.status = status

\* C7: when a query reply is handled, the cached credential changes only
\* if the reply carries HTTP 401, and then it becomes absent; a network
\* failure, a parse failure or any other status leaves it as it was.
C7_Only401Evicts ==
    [][(pc = "query_wait" /\ pc' # "query_wait")
          => IF LastQueryStatus(StatusUnauthorized)'
             THEN token' = NoToken
             ELSE token' = token]_vars

C7_Witness ==
    /\ pc = "do_query"
    /\ LastQueryStatus(500)
    /\ lastErr = "QueryFailure"
    /\ token # NoToken

(* ------------------------------- C8 ------------------------------------ *)

\* C8: an authentication request is sent only while no credential is
\* cached; a cached credential becomes absent only through a query reply
\* with HTTP 401; a call that returns Ok leaves a credential cached.
C8_AuthOnlyWhenAbsent ==
    [][/\ (AuthReq \in net' /\ AuthReq \notin net) => token = NoToken
       /\ (token # NoToken /\ token' = NoToken) => LastQueryStatus(StatusUnauthorized)'
       /\ (pc' = "done" /\ result'.tag = "Ok") => token' # NoToken]_vars

C8_Witness ==
    /\ pc = "done"
    /\ prevExecs >= 1
    /\ Len(log) = 1
    /\ log[1].req = "query"
    /\ log[1].tok = token
    /\ result.tag = "Ok"

(* ------------------------------- C9 ------------------------------------ *)

QueryErrors == {"Network", "QueryFailure", "QueryResponseParseFailure"}

\* C9: when the budget is exhausted, query returns the failure of the last
\* execution attempt: the one do_query produced for the reply received
\* last.
C9_LastFailureReturned ==
    (pc = "done" /\ result.tag = "Err")
        => /\ attempt = attempt_limit
           /\ result.val = lastErr
           /\ (lastReply.kind = "query" => result.val \in QueryErrors)
           /\ (lastReply.kind = "auth" =>
                   result.val \notin {"QueryFailure", "QueryResponseParseFailure"})
           /\ (lastReply.reply.transport = "error" <=> result.val = "Network")
           /\ (LastAuthError("inactive_org") => result.val = "OrgUnavailable")

C9_Witness ==
    /\ pc = "done"
    /\ Len(log) = 3
    /\ log[1].req = "auth"
    /\ log[1].res = "fail"
    /\ lastReply.kind = "query"
    /\ result = Err("QueryResponseParseFailure")

(* ------------------------------- C10 ----------------------------------- *)

\* C10: every call to query starts at attempt 0 with no attempt used,
\* whatever the earlier calls did, and a call that returns Err has used its
\* whole budget of attempt_limit + 1 attempts.
C10_AttemptPerCall ==
    [][/\ (Callable /\ pc' = "do_query") => (attempt' = 0 /\ execs' = 0)
       /\ (pc' = "done" /\ result'.tag = "Err") => execs' = attempt_limit' + 1]_vars

C10_Witness ==
    /\ pc = "done"
    /\ result.tag = "Err"
    /\ prevExecs >= 2
    /\ attempt_limit >= 1
    /\ execs = attempt_limit + 1

(* ------------------------- construction -------------------------------- *)

\* values of the login_url argument of SFClient::new
LoginUrls == {"", "https://login"}

\* before SFClient::new: the caller holds the login_url it will pass
InitNew ==
    /\ login_url \in LoginUrls
    /\ pc = "start"
    /\ token = NoToken
    /\ attempt_limit = 0
    /\ attempt = 0
    /\ result = None
    /\ net = {}
    /\ log = <<>>
    /\ lastErr = "none"
    /\ lastReply = Received("none", NoReply)
    /\ execs = 0
    /\ prevExecs = 0
    /\ leaf = NoLeaf

\* a constructor without the empty-url test
new_unchecked(built) ==
    /\ pc = "start"
    /\ IF ~built
       THEN /\ pc' = "no_client"
            /\ result' = Err("ClientBuildFailure")
            /\ UNCHANGED <<attempt_limit, token>>
       ELSE /\ pc' = "idle"
            /\ attempt_limit' = DefaultAttemptLimit
            /\ token' = NoToken
            /\ result' = None
    /\ UNCHANGED <<attempt, net, log, lastErr, lastReply, execs, prevExecs, login_url, leaf>>

\* a constructor with another default attempt_limit
new_default_zero(built) ==
    /\ pc = "start"
    /\ IF login_url = ""
       THEN /\ pc' = "no_client"
            /\ result' = Err("InvalidLoginUrl")
            /\ UNCHANGED <<attempt_limit, token>>
       ELSE IF ~built
       THEN /\ pc' = "no_client"
            /\ result' = Err("ClientBuildFailure")
            /\ UNCHANGED <<attempt_limit, token>>
       ELSE /\ pc' = "idle"
            /\ attempt_limit' = 0
            /\ token' = NoToken
            /\ result' = None
    /\ UNCHANGED <<attempt, net, log, lastErr, lastReply, execs, prevExecs, login_url, leaf>>

\* SFClient::new; built says whether reqwest's Client::new() succeeded
new(built) ==
    /\ pc = "start"
    /\ IF login_url = ""
       THEN /\ pc' = "no_client"
            /\ result' = Err("InvalidLoginUrl")
            /\ UNCHANGED <<attempt_limit, token>>
       ELSE IF ~built
       THEN /\ pc' = "no_client"
            /\ result' = Err("ClientBuildFailure")
            /\ UNCHANGED <<attempt_limit, token>>
       ELSE /\ pc' = "idle"
            /\ attempt_limit' = DefaultAttemptLimit
            /\ token' = NoToken
            /\ result' = None
    /\ UNCHANGED <<attempt, net, log, lastErr, lastReply, execs, prevExecs, login_url, leaf>>

NextNew ==
    \/ \E built \in BOOLEAN : new(built)
    \/ Next

SpecNew == InitNew /\ [][NextNew]_vars

(* ------------------------------- C11 ----------------------------------- *)

\* C11: SFClient::new with an empty login url returns InvalidLoginUrl, no
\* client exists afterwards (no operation ever runs) and no request has
\* been sent.
C11_RequiresLoginUrl ==
    (login_url = "" /\ pc # "start")
        => /\ pc = "no_client"
           /\ result = Err("InvalidLoginUrl")
           /\ net = {}
           /\ log = <<>>
           /\ execs = 0
           /\ token = NoToken

C11_Witness ==
    /\ login_url = ""
    /\ pc = "no_client"
    /\ result = Err("InvalidLoginUrl")

(* ------------------------------- C12 ----------------------------------- *)

\* the kinds of token.rs's AuthFailure
AuthFailureKinds ==
    {"InvalidClientId", "InvalidClientSecret", "InvalidGrant", "InvalidUser",
     "OrgUnavailable", "RateLimitExceeded", "TokenUnavailable"}

\* an AuthFailure::from whose inactive_org arm yields the neighbouring kind
AuthFailure_from_swapped(val) ==
    CASE val = "invalid_client_id" -> "InvalidClientId"
      [] val = "invalid_client_credentials" -> "InvalidClientSecret"
      [] val = "invalid_grant" -> "InvalidGrant"
      [] val = "inactive_user" -> "InvalidUser"
      [] val = "inactive_org" -> "InvalidUser"
      [] val = "rate_limit_exceeded" -> "RateLimitExceeded"
      [] OTHER -> "TokenUnavailable"

\* impl From<&str> for AuthFailure
AuthFailure_from(val) ==
    CASE val = "invalid_client_id" -> "InvalidClientId"
      [] val = "invalid_client_credentials" -> "InvalidClientSecret"
      [] val = "invalid_grant" -> "InvalidGrant"
      [] val = "inactive_user" -> "InvalidUser"
      [] val = "inactive_org" -> "OrgUnavailable"
      [] val = "rate_limit_exceeded" -> "RateLimitExceeded"
      [] OTHER -> "TokenUnavailable"

\* the table of the claim
C12_Table ==
    [code \in AuthCodes |->
        IF code = "invalid_client_id" THEN "InvalidClientId"
        ELSE IF code = "invalid_client_credentials" THEN "InvalidClientSecret"
        ELSE IF code = "invalid_grant" THEN "InvalidGrant"
        ELSE IF code = "inactive_user" THEN "InvalidUser"
        ELSE IF code = "inactive_org" THEN "OrgUnavailable"
        ELSE IF code = "rate_limit_exceeded" THEN "RateLimitExceeded"
        ELSE "TokenUnavailable"]

\* C12: whatever error code an authentication answer carries, the failure
\* SFClient::authenticate produces for it is the kind of the table, a
\* member of the taxonomy, and the kind AuthFailure::from gives the code.
C12_ErrorMapping ==
    \A code \in AuthCodes :
        LastAuthError(code) =>
            /\ lastErr = C12_Table[code]
            /\ lastErr \in AuthFailureKinds
            /\ AuthFailure_from(code) = lastErr

C12_Witness ==
    /\ pc = "done"
    /\ LastAuthError("inactive_org")
    /\ result = Err("OrgUnavailable")

(* ------------------------------- C13 ----------------------------------- *)

\* the last reply was an authentication body of neither shape
LastAuthUnparsed ==
    /\ lastReply.kind = "auth"
    /\ lastReply.reply.transport = "ok"
    /\ lastReply.reply.body = NoAuthBody

\* C13: an authentication body that is neither a Token nor a TokenError
\* yields a failure outside the authentication-failure taxonomy (so not the
\* TokenUnavailable of an unrecognized code) and no cached credential.
C13_DistinctParseFailure ==
    LastAuthUnparsed =>
        /\ lastErr \notin AuthFailureKinds
        /\ (pc \in {"do_query", "done"} => token = NoToken)

(* ------------- the stand-alone requests of token.rs and query.rs ------- *)

\* results of TokenRequest::send and QueryRequest::send; failure holds the
\* payload of the APIError / API variants
LeafOk(v) == [tag |-> "Ok", val |-> v]
LeafErr(e) == [tag |-> "Err", val |-> e]
LeafApiErr(e, f) == [tag |-> "Err", val |-> e, failure |-> f]

\* TokenRequest::send once the reply is known
TokenRequest_send(reply) ==
    IF reply.transport = "error"
    THEN LeafErr("Network")
    ELSE IF reply.body.token # NoTokenFields
    THEN LeafOk(reply.body.token)
    ELSE IF reply.body.error # Absent
    THEN LeafApiErr("APIError", AuthFailure_from(reply.body.error))
    ELSE LeafErr("AuthResponseParseFailure")

\* an error_code key is missing from a body
NoCode == -1

\* the keys of a query response body that matter to QueryFailure: message
\* (or Absent), fields (present or not) and an error_code of the body's own
FailureBodies ==
    [message : {Absent, "Session expired"},
     hasFields : BOOLEAN,
     fields : {<<>>, <<"Name">>},
     error_code : {NoCode, 200, 999}]

\* replies to the GET of QueryRequest::send
LeafQueryReplies ==
    [transport : {"ok", "error"}, status : Statuses,
     success : QueryResponses \cup {Absent}, failure : FailureBodies]

\* serde's decode of a body as QueryFailure: message and fields are
\* required, error_code is skip_deserializing and takes its default
QueryFailure_parses(body) == body.message # Absent /\ body.hasFields

QueryFailure_decode(body) ==
    [message |-> body.message, error_code |-> 0, fields |-> body.fields]

\* a send that keeps an error_code found in the body
QueryRequest_send_bodycode(reply) ==
    IF reply.transport = "error"
    THEN LeafErr("Network")
    ELSE IF reply.status = StatusOk
    THEN IF reply.success # Absent
         THEN LeafOk(reply.success)
         ELSE LeafErr("QueryResponseParseFailure")
    ELSE IF ~QueryFailure_parses(reply.failure)
    THEN LeafErr("QueryResponseParseFailure")
    ELSE LeafApiErr("API",
             [QueryFailure_decode(reply.failure) EXCEPT
                 !.error_code = IF reply.failure.error_code # NoCode
                                THEN reply.failure.error_code
                                ELSE reply.status])

\* QueryRequest::send once the reply is known
QueryRequest_send(reply) ==
    IF reply.transport = "error"
    THEN LeafErr("Network")
    ELSE IF reply.status = StatusOk
    THEN IF reply.success # Absent
         THEN LeafOk(reply.success)
         ELSE LeafErr("QueryResponseParseFailure")
    ELSE IF ~QueryFailure_parses(reply.failure)
    THEN LeafErr("QueryResponseParseFailure")
    ELSE LeafApiErr("API",
             [QueryFailure_decode(reply.failure) EXCEPT !.error_code = reply.status])

token_request_send(reply) ==
    /\ leaf' = [op |-> "TokenRequest::send", reply |-> reply,
                res |-> TokenRequest_send(reply)]
    /\ UNCHANGED clientVars

query_request_send(reply) ==
    /\ leaf' = [op |-> "QueryRequest::send", reply |-> reply,
                res |-> QueryRequest_send(reply)]
    /\ UNCHANGED clientVars

(* ----------------- QueryResponse and its wire shape ------------------- *)

\* serde_json::Value, as far as records are looked into: null, a number,
\* a string, or an object with one string member
VNull == [kind |-> "Null", n |-> 0, k |-> "", s |-> ""]
VNumber(n) == [kind |-> "Number", n |-> n, k |-> "", s |-> ""]
VString(str) == [kind |-> "String", n |-> 0, k |-> "", s |-> str]
VObject(key, str) == [kind |-> "Object", n |-> 0, k |-> key, s |-> str]

RecordValues == {VNull, VNumber(7), VObject("id", "12345")}

\* sequences over S of length at most n
SeqsUpTo(S, n) == UNION {[1..m -> S] : m \in 0..n}

\* the QueryResponse values that are serialized
QueryResponseValues ==
    [total_size : {0, 1, U8Mod - 1}, done : BOOLEAN,
     records : SeqsUpTo(RecordValues, MaxRecords)]

\* JSON text, as the tree of its tokens
JNull == [t |-> "null", n |-> 0, b |-> FALSE, k |-> "", s |-> "", a |-> <<>>]
JNum(n) == [t |-> "num", n |-> n, b |-> FALSE, k |-> "", s |-> "", a |-> <<>>]
JBool(b) == [t |-> "bool", n |-> 0, b |-> b, k |-> "", s |-> "", a |-> <<>>]
JStr(str) == [t |-> "str", n |-> 0, b |-> FALSE, k |-> "", s |-> str, a |-> <<>>]
JObj(key, str) == [t |-> "obj", n |-> 0, b |-> FALSE, k |-> key, s |-> str, a |-> <<>>]
JArr(elems) == [t |-> "arr", n |-> 0, b |-> FALSE, k |-> "", s |-> "", a |-> elems]

\* impl Serialize for Value
Value_serialize(v) ==
    CASE v.kind = "Null" -> JNull
      [] v.kind = "Number" -> JNum(v.n)
      [] v.kind = "String" -> JStr(v.s)
      [] v.kind = "Object" -> JObj(v.k, v.s)

\* impl Deserialize for Value
Value_deserialize(j) ==
    CASE j.t = "null" -> VNull
      [] j.t = "num" -> VNumber(j.n)
      [] j.t = "str" -> VString(j.s)
      [] j.t = "obj" -> VObject(j.k, j.s)
      [] OTHER -> VNull

Member(key, val) == [key |-> key, val |-> val]

\* a Serialize that writes the first key in camel case
QueryResponse_serialize_renamed(qr) ==
    << Member("totalSize", JNum(qr.total_size)),
       Member("done", JBool(qr.done)),
       Member("records", JArr([i \in 1..Len(qr.records) |-> Value_serialize(qr.records[i])])) >>

\* #[derive(Serialize)] on QueryResponse: an object with the three fields
\* under their own names, in declaration order
QueryResponse_serialize(qr) ==
    << Member("total_size", JNum(qr.total_size)),
       Member("done", JBool(qr.done)),
       Member("records", JArr([i \in 1..Len(qr.records) |-> Value_serialize(qr.records[i])])) >>

\* the members of an object that have the given key
Members(obj, key) == {i \in 1..Len(obj) : obj[i].key = key}

\* the one member with the key (only used when there is exactly one)
Field(obj, key) == obj[CHOOSE i \in Members(obj, key) : TRUE].val

\* #[derive(Deserialize)] on QueryResponse: every field exactly once
\* (other keys are skipped), total_size a number that fits u8, done a
\* boolean, records an array
QueryResponse_deserialize(obj) ==
    IF \E key \in {"total_size", "done", "records"} : Cardinality(Members(obj, key)) # 1
    THEN LeafErr("parse")
    ELSE IF \/ Field(obj, "total_size").t # "num"
            \/ Field(obj, "total_size").n \notin 0..(U8Mod - 1)
            \/ Field(obj, "done").t # "bool"
            \/ Field(obj, "records").t # "arr"
    THEN LeafErr("parse")
    ELSE LeafOk([total_size |-> Field(obj, "total_size").n,
                 done |-> Field(obj, "done").b,
                 records |-> [i \in 1..Len(Field(obj, "records").a) |->
                                 Value_deserialize(Field(obj, "records").a[i])]])

\* serde_json::to_string of a QueryResponse
to_wire(qr) ==
    /\ leaf' = [op |-> "to_wire", value |-> qr, wire |-> QueryResponse_serialize(qr)]
    /\ UNCHANGED clientVars

\* serde_json::from_str::<QueryResponse> of what was serialized
from_wire ==
    /\ leaf.op = "to_wire"
    /\ leaf' = [op |-> "from_wire", value |-> leaf.value, wire |-> leaf.wire,
                res |-> QueryResponse_deserialize(leaf.wire)]
    /\ UNCHANGED clientVars

NextLeaf ==
    \/ \E reply \in AuthReplies : token_request_send(reply)
    \/ \E reply \in LeafQueryReplies : query_request_send(reply)
    \/ \E qr \in QueryResponseValues : to_wire(qr)
    \/ from_wire

SpecLeaf == Init /\ [][NextLeaf]_vars

(* ------------------------------- C14 ----------------------------------- *)

\* QueryRequest::send ran on a non-200 reply whose body is a failure record
LeafFailureRecord ==
    /\ leaf.op = "QueryRequest::send"
    /\ leaf.reply.transport = "ok"
    /\ leaf.reply.status # StatusOk
    /\ QueryFailure_parses(leaf.reply.failure)

LastQueryMisshapen ==
    /\ lastReply.kind = "query"
    /\ lastReply.reply.transport = "ok"
    /\ \/ lastReply.reply.status = StatusOk /\ lastReply.reply.resp = Absent
       \/ lastReply.reply.status # StatusOk /\ lastReply.reply.failure = Absent

\* C15: a query response whose body does not match the shape expected for
\* its status (200 and not a success record, non-200 and not a failure
\* record) is classified as a response parse failure, not as an API
\* failure.
C15_ParseFailureClass ==
    LastQueryMisshapen => lastErr = "QueryResponseParseFailure"

(* ------------------------------- C16 ----------------------------------- *)

\* C16: when a request (authentication or query) ends in a transport
\* error, the failure of the attempt is Network, which is no member of the
\* authentication taxonomy and neither the API failure nor the parse
\* failure; the cached credential is what it was, and Network is what the
\* call returns if the budget is used up.
C16_NetworkKind ==
    [][(pc \in {"auth_wait", "query_wait"} /\ lastReply'.reply.transport = "error")
          => /\ lastErr' = "Network"
             /\ lastErr' \notin AuthFailureKinds \cup {"QueryFailure", "QueryResponseParseFailure"}
             /\ token' = token
             /\ pc' \in {"do_query", "done"}
             /\ (pc' = "done" => result' = Err("Network"))]_vars

C16_Witness ==
    /\ pc = "done"
    /\ lastReply.kind = "query"
    /\ lastReply.reply.transport = "error"
    /\ result = Err("Network")
    /\ token # NoToken

(* ------------------------------- C17 ----------------------------------- *)

\* C17: a QueryResponse that is serialized and parsed back comes out equal:
\* total_size, done and records are what they were, the empty records
\* sequence included.
C17_RoundTrip ==
    leaf.op = "from_wire" =>
        /\ leaf.res.tag = "Ok"
        /\ leaf.res.val.total_size = leaf.value.total_size
        /\ leaf.res.val.done = leaf.value.done
        /\ leaf.res.val.records = leaf.value.records

C17_Witness ==
    /\ leaf.op = "from_wire"
    /\ leaf.value.records = <<>>
    /\ leaf.value.total_size = U8Mod - 1
    /\ leaf.res.tag = "Ok"
    /\ leaf.res.val.records = <<>>

(* ------------------------------- C18 ----------------------------------- *)

\* C18: the client SFClient::new returns has attempt_limit = 3, and only
\* set_attempt_limit changes attempt_limit afterwards, leaving the cached
\* credential and the connection parameters alone; with attempt_limit = 0
\* a call to query is over after one execution attempt.
C18_AttemptLimitSetting ==
    [][/\ (pc = "start" /\ pc' = "idle") => attempt_limit' = 3
       /\ (pc # "start" /\ attempt_limit' # attempt_limit)
             => /\ Callable
                /\ pc' = "idle"
                /\ token' = token
                /\ login_url' = login_url
                /\ net' = net
       /\ (pc' = "done" /\ attempt_limit' = 0) => (execs' = 1 /\ attempt' = 0)]_vars

C18_Witness ==
    /\ pc = "done"
    /\ attempt_limit = 0
    /\ token # NoToken
    /\ execs = 1
    /\ result.tag = "Err"

(* ------------------------------- C19 ----------------------------------- *)

\* the call began with a cached credential: its first request is the GET
StartedWithToken == Len(log) >= 1 /\ log[1].req = "query"

\* every query request of the call was answered with a failure other than 401
EveryQueryFailedNot401 == \A i \in Positions("query") : log[i].res = "fail"

\* C19: starting with a cached credential and attempt_limit = N, if every
\* query request fails with a failure other than 401 (network, parse
\* failure, other status), a finished call has sent exactly N + 1 query
\* requests and no authentication request, and returned that failure.
C19_UniformRetry ==
    (pc = "done" /\ StartedWithToken /\ EveryQueryFailedNot401)
        => /\ NumQuery = attempt_limit + 1
           /\ NumAuth = 0
           /\ result.tag = "Err"
           /\ result.val \in QueryErrors
           /\ token = log[1].tok

C19_Witness ==
    /\ pc = "done"
    /\ StartedWithToken
    /\ EveryQueryFailedNot401
    /\ attempt_limit = 2
    /\ NumQuery = 3
    /\ result = Err("QueryResponseParseFailure")

(* ------------------------------- C20 ----------------------------------- *)

\* execution attempts of the call that ended in a failure
FailedAttempts ==
    NumFailedAuth + Cardinality({i \in Positions("query") : log[i].res \in {"fail", "401"}})

\* the reply received last was a failure
LastReplyFailed ==
    \/ lastReply.kind = "auth" /\ AuthReplyClass(lastReply.reply) = "fail"
    \/ lastReply.kind = "query" /\ ReplyClass(lastReply.reply) # "ok"

\* C20: a finished call returned Ok exactly if its last request is a query
\* that succeeded, the first one to succeed, with its response as the
\* value and nothing sent after it; it returned Err exactly if all
\* attempt_limit + 1 attempts failed.  Every failed reply is followed at
\* once by the next attempt or by the return of that very failure.
C20_NothingSwallowed ==
    /\ [](pc = "done" =>
            /\ net = {}
            /\ result.tag \in {"Ok", "Err"}
            /\ (result.tag = "Ok" <=>
                    /\ log[Len(log)].req = "query"
                    /\ log[Len(log)].res = "ok")
            /\ (result.tag = "Ok" =>
                    /\ result.val = lastReply.reply.resp
                    /\ \A i \in 1..(Len(log) - 1) :
                           ~(log[i].req = "query" /\ log[i].res = "ok")
                    /\ FailedAttempts = execs - 1)
            /\ (result.tag = "Err" <=> FailedAttempts = attempt_limit + 1))
    /\ [][(pc \in {"auth_wait", "query_wait"} /\ LastReplyFailed')
             => \/ /\ attempt < attempt_limit
                   /\ pc' = "do_query"
                   /\ attempt' = attempt + 1
                   /\ result' = None
                \/ /\ attempt = attempt_limit
                   /\ pc' = "done"
                   /\ result' = Err(lastErr')]_vars

C20_Witness ==
    /\ pc = "done"
    /\ result.tag = "Ok"
    /\ Len(log) = 4
    /\ FailedAttempts = 2
    /\ execs = 3
    /\ attempt_limit = 3

(* ---------------------------- termination ------------------------------ *)

\* one authentication reply for every branch of authenticate
LiveAuthReplies ==
    {reply \in AuthReplies :
        /\ reply.status = StatusOk
        /\ reply.body.token \in {NoTokenFields, TokenA}
        /\ reply.body.error \in {Absent, "invalid_grant"}}

\* one query reply for every branch of do_query
LiveQueryReplies ==
    {reply \in QueryReplies :
        /\ reply.status \in {StatusOk, StatusUnauthorized, 500}
        /\ reply.failure = Absent}

NextLive ==
    \/ \E n \in 0..MaxLimit : set_attempt_limit(n)
    \/ \E t \in Tokens : set_token(t)
    \/ query
    \/ do_query
    \/ \E reply \in LiveAuthReplies : auth_reply(reply)
    \/ \E reply \in LiveQueryReplies : query_reply(reply)

\* the call keeps running (do_query is a step of the program itself), and
\* every request that is out is answered or fails at the transport
SpecLive ==
    /\ Init
    /\ [][NextLive]_vars
    /\ WF_vars(do_query)
    /\ WF_vars(\E reply \in LiveAuthReplies : auth_reply(reply))
    /\ WF_vars(\E reply \in LiveQueryReplies : query_reply(reply))

(* ------------------------------- C21 ----------------------------------- *)

\* a call to query is running
InCall == pc \in {"do_query", "auth_wait", "query_wait"}

Pending == {i \in 1..Len(log) : log[i].res = "pending"}

\* C22: at most one request is outstanding at any time, and it is the one
\* sent last: every earlier request of the call was answered (or failed at
\* the transport) before the next one went out; between calls and between
\* attempts nothing is outstanding, and a call to query starts only when no
\* other call is running.
C22_OneOutstanding ==
    /\ [](/\ Cardinality(net) <= 1
          /\ Cardinality(Pending) = Cardinality(net)
          /\ Pending \subseteq {Len(log)}
          /\ (pc \in {"idle", "do_query", "done"} => net = {})
          /\ (pc = "auth_wait" => net = {AuthReq})
          /\ (pc = "query_wait" => net = {QueryReq(token)}))
    /\ [][(pc' = "do_query" /\ execs' = 0 /\ log' = <<>>)
             => (pc \in {"idle", "done"} /\ net = {})]_vars

C22_Witness ==
    /\ pc = "query_wait"
    /\ Len(log) >= 3
    /\ Pending = {Len(log)}
    /\ net = {QueryReq(token)}

(* ------------------------------- C23 ----------------------------------- *)

\* the last reply was an authentication body that decodes as a Token
LastAuthOk ==
    /\ lastReply.kind = "auth"
    /\ AuthReplyClass(lastReply.reply) = "ok"

\* C23: a query request that goes out carries the access_token and the
\* instance_url of the credential cached at that moment; a successful
\* authentication puts the decoded credential into the slot as a whole,
\* and the query request that follows it (the retry after a 401 included)
\* carries that credential; the slot never holds a mix of two credentials.
C23_RequestUsesCachedToken ==
    /\ [](token \in Tokens \cup {NoToken})
    /\ [][/\ \A r \in net' \ net :
               r.kind = "query" =>
                   /\ token' # NoToken
                   /\ r.bearer = token'.access_token
                   /\ r.url = token'.instance_url
          /\ (pc = "auth_wait" /\ LastAuthOk') =>
                   /\ token' = lastReply'.reply.body.token
                   /\ net' = {QueryReq(lastReply'.reply.body.token)}
                   /\ log'[Len(log')].req = "query"
                   /\ log'[Len(log')].tok = lastReply'.reply.body.token]_vars

C23_Witness ==
    /\ pc = "query_wait"
    /\ Len(log) = 3
    /\ log[1].req = "query"
    /\ log[1].res = "401"
    /\ log[2].req = "auth"
    /\ log[2].res = "ok"
    /\ log[3].req = "query"
    /\ log[3].tok # log[1].tok
    /\ log[3].tok = token
    /\ net = {QueryReq(token)}

(* ------------------------------- C24 ----------------------------------- *)

\* C24: an invocation of authenticate (build_request finding no token)
\* sends exactly one authentication request, and handling its reply sends
\* no further one; a reply that is an error record, an unparseable body
\* or a transport error leaves the token slot as it was, and a body that
\* decodes as a Token puts that Token into the slot.
C24_AuthenticateFrame ==
    [][/\ (pc = "do_query" /\ token = NoToken /\ pc' # pc)
             => /\ pc' = "auth_wait"
                /\ net' = {AuthReq}
                /\ NumAuth' = NumAuth + 1
                /\ NumQuery' = NumQuery
                /\ token' = token
       /\ (pc = "auth_wait" /\ pc' # pc)
             => /\ NumAuth' = NumAuth
                /\ AuthReq \notin net'
                /\ IF LastAuthOk'
                   THEN token' = lastReply'.reply.body.token
                   ELSE token' = token]_vars

C24_Witness ==
    /\ pc = "do_query"
    /\ lastReply.kind = "auth"
    /\ ~LastAuthOk
    /\ lastErr = "InvalidClientSecret"
    /\ NumAuth = 1
    /\ token = NoToken

(* ------------------------------- C25 ----------------------------------- *)

\* C25: when query has returned Ok a credential is cached, the one the
\* last request carried; when the last execution attempt ended with
\* HTTP 401 the slot is absent and the call returned QueryFailure, also
\* with attempt_limit = 0, when no retry follows the eviction.
C25_SlotAtReturn ==
    pc = "done" =>
        /\ (result.tag = "Ok" =>
                /\ token # NoToken
                /\ token = log[Len(log)].tok)
        /\ (LastQueryStatus(StatusUnauthorized) =>
                /\ token = NoToken
                /\ result = Err("QueryFailure")
                /\ attempt = attempt_limit)

C25_Witness ==
    /\ pc = "done"
    /\ attempt_limit = 0
    /\ StartedWithToken
    /\ LastQueryStatus(StatusUnauthorized)
    /\ token = NoToken

(* ------------------------------- C26 ----------------------------------- *)

\* the authentication body received last has the Token fields and the
\* TokenError fields
LastAuthBothShapes ==
    /\ lastReply.kind = "auth"
    /\ lastReply.reply.transport = "ok"
    /\ lastReply.reply.body.token # NoTokenFields
    /\ lastReply.reply.body.error # Absent

\* C26: an authentication body that has both shapes is taken as a
\* credential: it is cached and the query request goes out; authenticate
\* fails (with a mapped kind or otherwise) only on a transport error or on
\* a body without the Token fields.
C26_TokenShapeFirst ==
    [][/\ (pc = "auth_wait" /\ LastAuthBothShapes')
             => /\ token' = lastReply'.reply.body.token
                /\ pc' = "query_wait"
                /\ lastErr' = lastErr
       /\ (pc = "auth_wait" /\ pc' \in {"do_query", "done"})
             => \/ lastReply'.reply.transport = "error"
                \/ lastReply'.reply.body.token = NoTokenFields]_vars

C26_Witness ==
    /\ pc = "query_wait"
    /\ LastAuthBothShapes
    /\ lastReply.reply.body.error = "invalid_grant"
    /\ token = lastReply.reply.body.token

(* ------------------------------- C27 ----------------------------------- *)

\* attempt limits at the two ends of the u8 range
U8Limits == {0, 1, U8Mod - 2, U8Mod - 1}

\* a backend that fails every request: the authentication POST does not
\* get through, the query GET is answered with HTTP 500
U8AuthReplies == {TransportError}

U8QueryReplies == {r \in QueryReplies : r.transport = "ok" /\ r.status = 500}

NextU8 ==
    \/ \E n \in U8Limits : set_attempt_limit(n)
    \/ set_token(TokenA)
    \/ query
    \/ do_query
    \/ \E reply \in U8AuthReplies : auth_reply(reply)
    \/ \E reply \in U8QueryReplies : query_reply(reply)

SpecU8 == Init /\ [][NextU8]_vars

\* C27: the attempt counter stays within u8 and every increment is a true
\* +1 taken below attempt_limit, so it never wraps; a call that fails
\* throughout stops with attempt = attempt_limit after attempt_limit + 1
\* executions, which is 256 executions for attempt_limit = 255.
C27_NoOverflow ==
    /\ [](/\ attempt \in 0..(U8Mod - 1)
          /\ (pc # "idle" => attempt <= attempt_limit)
          /\ execs <= U8Mod
          /\ (pc = "done" /\ result.tag = "Err"
                => /\ attempt = attempt_limit
                   /\ execs = attempt_limit + 1
                   /\ (attempt_limit = U8Mod - 1 => execs = 256)))
    /\ [][attempt' # attempt =>
            \/ attempt' = 0 /\ pc \in {"idle", "done"} /\ execs' = 0
            \/ /\ attempt < attempt_limit
               /\ attempt + 1 < U8Mod
               /\ attempt' = attempt + 1]_vars

C27_Witness ==
    /\ pc = "done"
    /\ result.tag = "Err"
    /\ attempt_limit = 255
    /\ attempt = 255
    /\ execs = 256
    /\ Len(log) = 256

====
